---------------------------- MODULE Spec2Model ----------------------------
(***************************************************************************)
(* Model of hid-veikk.c, the HID driver for VEIKK digitizers.              *)
(*                                                                         *)
(* State: one struct veikk_device per attached hid_device (the persisted   *)
(* button, wheel and pad bitmaps, the model pointer, the three delayed     *)
(* works), the driver binding of each hid_device, the bytes written to     *)
(* each device's output channel, and a record of the last driver entry     *)
(* point that ran (its arguments, its return value and the calls it made   *)
(* on the input device).                                                   *)
(***************************************************************************)
EXTENDS Integers, Sequences, FiniteSets, TLC

(***************************************************************************)
(* Program constants.                                                      *)
(***************************************************************************)
VEIKK_PEN_REPORT == 65
VEIKK_BUTTON_REPORT == 66
VEIKK_PAD_REPORT == 67
\* `report->id != 9`: the report id of the proprietary interface
VEIKK_REPORT_ID == 9
\* sizeof(struct veikk_report): u8 id, u8 type, u8 data[7]
SIZEOF_VEIKK_REPORT == 9
EINVAL == 22
ENOMEM == 12
\* delays handed to schedule_delayed_work
SETUP_PEN_DELAY == 100
SETUP_BUTTONS_DELAY == 200
SETUP_PAD_DELAY == 300

(***************************************************************************)
(* Bounds of the model.                                                    *)
(***************************************************************************)
\* attachment instances (hid_devices) the HID core hands to the driver
NumDevs == 2
\* frames recorded in the per-device frame log of the logging specifications
MaxLog == 3

Devs == 1..NumDevs

\* the device of the single-device specifications
FirstDev == CHOOSE d \in Devs : \A e \in Devs : d <= e

\* the next one, and the two of them
SecondDev ==
    CHOOSE d \in Devs \ {FirstDev} : \A e \in Devs \ {FirstDev} : d <= e

PairDevs == {FirstDev, SecondDev}

(***************************************************************************)
(* Fixed-width integer arithmetic (u8, u16) as C computes it.              *)
(***************************************************************************)
Pow2(n) == 2^n

Bit(x, i) == (x \div Pow2(i)) % 2

RECURSIVE BitOrW(_, _, _)
\* x | y over the low w bits
BitOrW(x, y, w) ==
    IF w = 0 THEN 0
    ELSE (IF (x % 2) + (y % 2) > 0 THEN 1 ELSE 0)
         + 2 * BitOrW(x \div 2, y \div 2, w - 1)

RECURSIVE BitAndNotW(_, _, _)
\* x & ~y over the low w bits
BitAndNotW(x, y, w) ==
    IF w = 0 THEN 0
    ELSE (IF (x % 2) = 1 /\ (y % 2) = 0 THEN 1 ELSE 0)
         + 2 * BitAndNotW(x \div 2, y \div 2, w - 1)

\* x & mask for a mask of one bit (0x001, 0x002, ...): the bit of x at the
\* position of the mask, in place
AndMask(x, mask) == ((x \div mask) % 2) * mask

\* get_unaligned_le16(p): p[0] | p[1] << 8
get_unaligned_le16(lo, hi) == lo + 256 * hi

\* `S |= m` stored into an unsigned field of w bits; the int-promoted
\* result is truncated to the field
OrAssign(S, m, w) == BitOrW(S, m, 16) % Pow2(w)

\* `S &= ~m` stored into an unsigned field of w bits
AndNotAssign(S, m, w) == BitAndNotW(S, m, 16) % Pow2(w)

(***************************************************************************)
(* The model table (veikk_model_0x0001 .. veikk_model_0x1001) and the id   *)
(* table.  A model pointer is represented by its prod_id; 0 is NULL.       *)
(***************************************************************************)
NULL == 0

veikk_models ==
    { [prod_id |-> 1,    name |-> "VEIKK S640",    x_max |-> 30480,
       y_max |-> 20320, pressure_max |-> 8192, has_buttons |-> 0, has_pad |-> 0],
      [prod_id |-> 2,    name |-> "VEIKK A30",     x_max |-> 32768,
       y_max |-> 32768, pressure_max |-> 8192, has_buttons |-> 1, has_pad |-> 1],
      [prod_id |-> 3,    name |-> "VEIKK A50",     x_max |-> 50800,
       y_max |-> 30480, pressure_max |-> 8192, has_buttons |-> 1, has_pad |-> 1],
      [prod_id |-> 4,    name |-> "VEIKK A15",     x_max |-> 32768,
       y_max |-> 32768, pressure_max |-> 8192, has_buttons |-> 1, has_pad |-> 1],
      [prod_id |-> 6,    name |-> "VEIKK A15 Pro", x_max |-> 32768,
       y_max |-> 32768, pressure_max |-> 8192, has_buttons |-> 1, has_pad |-> 1],
      [prod_id |-> 4097, name |-> "VEIKK VK1560",  x_max |-> 34420,
       y_max |-> 19360, pressure_max |-> 8192, has_buttons |-> 1, has_pad |-> 0] }

\* the model a non-NULL model pointer points to
ModelOf(p) == CHOOSE m \in veikk_models : m.prod_id = p

\* .driver_data of the entries of veikk_model_ids
veikk_model_ids == { m.prod_id : m \in veikk_models }


(***************************************************************************)
(* Calls on the input device.  input_report_key(dev, code, value) reports  *)
(* !!value; input_report_abs reports the value itself.                     *)
(***************************************************************************)
input_report_key(code, value) ==
    [type |-> "EV_KEY", code |-> code, value |-> IF value # 0 THEN 1 ELSE 0]

input_report_abs(code, value) ==
    [type |-> "EV_ABS", code |-> code, value |-> value]

input_sync == [type |-> "EV_SYN", code |-> "SYN_REPORT", value |-> 0]

(***************************************************************************)
(* struct veikk_device.  mem says whether the devm allocation that holds   *)
(* it exists ("none" before veikk_probe allocates it, "live", "freed"      *)
(* once devres has released it).  model is the model pointer, input_dev    *)
(* is "NULL", "allocated" or "registered".                                 *)
(***************************************************************************)
NoDevice ==
    [mem |-> "none", model |-> NULL, input_dev |-> "NULL",
     buttons_state |-> 0, pad_state |-> 0, wheel_state |-> 0]

\* veikk_pen_event limiting each axis to the maximum of the model
veikk_pen_event_clamped(veikk_dev, evt) ==
    LET m == ModelOf(veikk_dev.model)
        Min(a, b) == IF a < b THEN a ELSE b
    IN  [ret |-> 0,
         dev |-> veikk_dev,
         calls |->
           << input_report_abs("ABS_X",
                Min(get_unaligned_le16(evt[2], evt[3]), m.x_max)),
              input_report_abs("ABS_Y",
                Min(get_unaligned_le16(evt[4], evt[5]), m.y_max)),
              input_report_abs("ABS_PRESSURE",
                Min(get_unaligned_le16(evt[6], evt[7]), m.pressure_max)),
              input_report_key("BTN_TOUCH", AndMask(evt[1], 1)),
              input_report_key("BTN_STYLUS", AndMask(evt[1], 2)),
              input_report_key("BTN_STYLUS2", AndMask(evt[1], 4)) >>]

(***************************************************************************)
(* veikk_pen_event: evt is the 7-byte payload laid out as                  *)
(* struct veikk_pen_report_data { btns; x[2]; y[2]; pressure[2] }.         *)
(***************************************************************************)
veikk_pen_event(veikk_dev, evt) ==
    [ret |-> 0,
     dev |-> veikk_dev,
     calls |->
       << input_report_abs("ABS_X", get_unaligned_le16(evt[2], evt[3])),
          input_report_abs("ABS_Y", get_unaligned_le16(evt[4], evt[5])),
          input_report_abs("ABS_PRESSURE", get_unaligned_le16(evt[6], evt[7])),
          input_report_key("BTN_TOUCH", AndMask(evt[1], 1)),
          input_report_key("BTN_STYLUS", AndMask(evt[1], 2)),
          input_report_key("BTN_STYLUS2", AndMask(evt[1], 4)) >>]

\* ButtonsCalls with BTN_WHEEL taken from wheel_state (& 0x4) instead of
\* buttons_state & 0x1000
ButtonsCalls_wheel(buttons_state, wheel_state) ==
    << input_report_key("BTN_0", AndMask(buttons_state, 1)),
       input_report_key("BTN_1", AndMask(buttons_state, 2)),
       input_report_key("BTN_2", AndMask(buttons_state, 4)),
       input_report_key("BTN_3", AndMask(buttons_state, 8)),
       input_report_key("BTN_4", AndMask(buttons_state, 16)),
       input_report_key("BTN_5", AndMask(buttons_state, 32)),
       input_report_key("BTN_6", AndMask(buttons_state, 64)),
       input_report_key("BTN_7", AndMask(buttons_state, 128)),
       input_report_key("BTN_8", AndMask(buttons_state, 256)),
       input_report_key("BTN_9", AndMask(buttons_state, 512)),
       input_report_key("0x118", AndMask(buttons_state, 1024)),
       input_report_key("0x119", AndMask(buttons_state, 2048)),
       input_report_key("BTN_WHEEL", AndMask(wheel_state, 4)),
       input_report_key("BTN_GEAR_DOWN", AndMask(wheel_state, 1)),
       input_report_key("BTN_GEAR_UP", AndMask(wheel_state, 2)) >>

\* the input_report_key calls of veikk_buttons_event, from its two locals
ButtonsCalls(buttons_state, wheel_state) ==
    << input_report_key("BTN_0", AndMask(buttons_state, 1)),
       input_report_key("BTN_1", AndMask(buttons_state, 2)),
       input_report_key("BTN_2", AndMask(buttons_state, 4)),
       input_report_key("BTN_3", AndMask(buttons_state, 8)),
       input_report_key("BTN_4", AndMask(buttons_state, 16)),
       input_report_key("BTN_5", AndMask(buttons_state, 32)),
       input_report_key("BTN_6", AndMask(buttons_state, 64)),
       input_report_key("BTN_7", AndMask(buttons_state, 128)),
       input_report_key("BTN_8", AndMask(buttons_state, 256)),
       input_report_key("BTN_9", AndMask(buttons_state, 512)),
       input_report_key("0x118", AndMask(buttons_state, 1024)),
       input_report_key("0x119", AndMask(buttons_state, 2048)),
       input_report_key("BTN_WHEEL", AndMask(buttons_state, 4096)),
       input_report_key("BTN_GEAR_DOWN", AndMask(wheel_state, 1)),
       input_report_key("BTN_GEAR_UP", AndMask(wheel_state, 2)) >>

(***************************************************************************)
(* veikk_buttons_event: evt is the payload laid out as                     *)
(* struct veikk_buttons_report_data { type; pressed; btns[2]; unused2[3] } *)
(***************************************************************************)
\* buttons_merge with `=` written for `|=`: a press overwrites the bitmap
buttons_merge_assign(veikk_dev, evt) ==
    LET event_buttons == get_unaligned_le16(evt[3], evt[4])
    IN  IF evt[1] = 1
        THEN [veikk_dev EXCEPT !.buttons_state =
                IF evt[2] # 0
                THEN event_buttons
                ELSE AndNotAssign(veikk_dev.buttons_state, event_buttons, 16)]
        ELSE [veikk_dev EXCEPT !.wheel_state =
                IF evt[2] # 0
                THEN event_buttons % 256
                ELSE AndNotAssign(veikk_dev.wheel_state, event_buttons, 8)]

\* buttons_merge with `if (evt->type)` written for `if (evt->type == 1)`:
\* every non-zero sub-type is merged into buttons_state
buttons_merge_cross(veikk_dev, evt) ==
    LET event_buttons == get_unaligned_le16(evt[3], evt[4])
    IN  IF evt[1] # 0
        THEN [veikk_dev EXCEPT !.buttons_state =
                IF evt[2] # 0
                THEN OrAssign(veikk_dev.buttons_state, event_buttons, 16)
                ELSE AndNotAssign(veikk_dev.buttons_state, event_buttons, 16)]
        ELSE [veikk_dev EXCEPT !.wheel_state =
                IF evt[2] # 0
                THEN OrAssign(veikk_dev.wheel_state, event_buttons, 8)
                ELSE AndNotAssign(veikk_dev.wheel_state, event_buttons, 8)]

\* buttons_merge with `&= event_buttons` written for `&= ~event_buttons`:
\* a release keeps the released bits and clears the others
buttons_merge_and(veikk_dev, evt) ==
    LET event_buttons == get_unaligned_le16(evt[3], evt[4])
        keep(S) == AndNotAssign(S, AndNotAssign(S, event_buttons, 16), 16)
    IN  IF evt[1] = 1
        THEN [veikk_dev EXCEPT !.buttons_state =
                IF evt[2] # 0
                THEN OrAssign(veikk_dev.buttons_state, event_buttons, 16)
                ELSE keep(veikk_dev.buttons_state)]
        ELSE [veikk_dev EXCEPT !.wheel_state =
                IF evt[2] # 0
                THEN OrAssign(veikk_dev.wheel_state, event_buttons, 8)
                ELSE keep(veikk_dev.wheel_state)]

\* the merge with a press toggling the bits of the mask (S ^= m)
buttons_merge_toggle(veikk_dev, evt) ==
    LET event_buttons == get_unaligned_le16(evt[3], evt[4])
        Xor(S, m, w) ==
          (OrAssign(S, m, 16) - (S - AndNotAssign(S, m, 16))) % Pow2(w)
    IN  IF evt[1] = 1
        THEN [veikk_dev EXCEPT !.buttons_state =
                IF evt[2] # 0
                THEN Xor(veikk_dev.buttons_state, event_buttons, 16)
                ELSE AndNotAssign(veikk_dev.buttons_state, event_buttons, 16)]
        ELSE [veikk_dev EXCEPT !.wheel_state =
                IF evt[2] # 0
                THEN Xor(veikk_dev.wheel_state, event_buttons, 8)
                ELSE AndNotAssign(veikk_dev.wheel_state, event_buttons, 8)]

\* the merge with wheel_state as wide as buttons_state (a u16 field)
buttons_merge_wide(veikk_dev, evt) ==
    LET event_buttons == get_unaligned_le16(evt[3], evt[4])
    IN  IF evt[1] = 1
        THEN [veikk_dev EXCEPT !.buttons_state =
                IF evt[2] # 0
                THEN OrAssign(veikk_dev.buttons_state, event_buttons, 16)
                ELSE AndNotAssign(veikk_dev.buttons_state, event_buttons, 16)]
        ELSE [veikk_dev EXCEPT !.wheel_state =
                IF evt[2] # 0
                THEN OrAssign(veikk_dev.wheel_state, event_buttons, 16)
                ELSE AndNotAssign(veikk_dev.wheel_state, event_buttons, 16)]

\* the update of the persisted bitmaps: evt->type selects the bitmap,
\* evt->pressed selects |= or &= ~
buttons_merge(veikk_dev, evt) ==
    LET event_buttons == get_unaligned_le16(evt[3], evt[4])
    IN  IF evt[1] = 1
        THEN [veikk_dev EXCEPT !.buttons_state =
                IF evt[2] # 0
                THEN OrAssign(veikk_dev.buttons_state, event_buttons, 16)
                ELSE AndNotAssign(veikk_dev.buttons_state, event_buttons, 16)]
        ELSE [veikk_dev EXCEPT !.wheel_state =
                IF evt[2] # 0
                THEN OrAssign(veikk_dev.wheel_state, event_buttons, 8)
                ELSE AndNotAssign(veikk_dev.wheel_state, event_buttons, 8)]

veikk_buttons_event(veikk_dev, evt) ==
    LET new_dev == buttons_merge(veikk_dev, evt)
    IN  [ret |-> 0,
         dev |-> new_dev,
         calls |-> ButtonsCalls(new_dev.buttons_state, new_dev.wheel_state)]

(***************************************************************************)
(* veikk_pad_event: evt is the payload laid out as                         *)
(* struct veikk_pad_report_data { pressed; btns; unused[5] }.              *)
(***************************************************************************)
\* pad_merge with `=` written for `|=`: a press overwrites pad_state
pad_merge_assign(veikk_dev, evt) ==
    IF evt[1] # 0
    THEN evt[2]
    ELSE AndNotAssign(veikk_dev.pad_state, evt[2], 8)

\* the update of pad_state, whose new value is the local `state`
pad_merge(veikk_dev, evt) ==
    IF evt[1] # 0
    THEN OrAssign(veikk_dev.pad_state, evt[2], 8)
    ELSE AndNotAssign(veikk_dev.pad_state, evt[2], 8)

veikk_pad_event(veikk_dev, evt) ==
    LET state == pad_merge(veikk_dev, evt)
    IN  [ret |-> 0,
         dev |-> [veikk_dev EXCEPT !.pad_state = state],
         calls |->
           << input_report_key("BTN_NORTH", AndMask(state, 1)),
              input_report_key("BTN_SOUTH", AndMask(state, 2)),
              input_report_key("BTN_WEST", AndMask(state, 4)),
              input_report_key("BTN_EAST", AndMask(state, 8)),
              input_report_key("BTN_TOOL_DOUBLETAP", AndMask(state, 16)) >>]

(***************************************************************************)
(* veikk_raw_event.  f is what the HID core hands over: f.id is            *)
(* report->id, f.size is size, f.type and f.data are data[1] and           *)
(* data[2..8] seen through struct veikk_report.  The result is the return  *)
(* value, the device context afterwards and the calls made on the input    *)
(* device, in order.                                                       *)
(***************************************************************************)
\* raw_event_dispatch with `break` written for `return 0` in the default
\* case: an unknown type falls through to input_sync
raw_event_dispatch_break(veikk_dev, f) ==
    LET sub == IF f.type = VEIKK_PEN_REPORT
                  THEN veikk_pen_event(veikk_dev, f.data)
               ELSE IF f.type = VEIKK_BUTTON_REPORT
                  THEN veikk_buttons_event(veikk_dev, f.data)
               ELSE IF f.type = VEIKK_PAD_REPORT
                  THEN veikk_pad_event(veikk_dev, f.data)
               ELSE [ret |-> 0, dev |-> veikk_dev, calls |-> << >>]
    IN  [ret |-> 1, dev |-> sub.dev, calls |-> Append(sub.calls, input_sync)]

\* raw_event_dispatch with the default case returning -EINVAL
raw_event_dispatch_einval(veikk_dev, f) ==
    LET sub == IF f.type = VEIKK_PEN_REPORT
                  THEN veikk_pen_event(veikk_dev, f.data)
               ELSE IF f.type = VEIKK_BUTTON_REPORT
                  THEN veikk_buttons_event(veikk_dev, f.data)
               ELSE veikk_pad_event(veikk_dev, f.data)
    IN  IF f.type \notin {VEIKK_PEN_REPORT, VEIKK_BUTTON_REPORT,
                          VEIKK_PAD_REPORT}
        THEN [ret |-> -EINVAL, dev |-> veikk_dev, calls |-> << >>]
        ELSE [ret |-> 1, dev |-> sub.dev,
              calls |-> Append(sub.calls, input_sync)]

\* the dispatch with the buttons handler as the default case of the switch
raw_event_dispatch_default_buttons(veikk_dev, f) ==
    LET sub == IF f.type = VEIKK_PEN_REPORT
                  THEN veikk_pen_event(veikk_dev, f.data)
               ELSE IF f.type = VEIKK_PAD_REPORT
                  THEN veikk_pad_event(veikk_dev, f.data)
               ELSE veikk_buttons_event(veikk_dev, f.data)
    IN  IF sub.ret # 0
        THEN [ret |-> -EINVAL, dev |-> sub.dev, calls |-> sub.calls]
        ELSE [ret |-> 1, dev |-> sub.dev,
              calls |-> Append(sub.calls, input_sync)]

\* the switch on veikk_report->type and what follows it
raw_event_dispatch(veikk_dev, f) ==
    LET sub == IF f.type = VEIKK_PEN_REPORT
                  THEN veikk_pen_event(veikk_dev, f.data)
               ELSE IF f.type = VEIKK_BUTTON_REPORT
                  THEN veikk_buttons_event(veikk_dev, f.data)
               ELSE veikk_pad_event(veikk_dev, f.data)
    IN  IF f.type \notin {VEIKK_PEN_REPORT, VEIKK_BUTTON_REPORT,
                          VEIKK_PAD_REPORT}
        THEN [ret |-> 0, dev |-> veikk_dev, calls |-> << >>]
        ELSE IF sub.ret # 0
        THEN [ret |-> -EINVAL, dev |-> sub.dev, calls |-> sub.calls]
        ELSE [ret |-> 1, dev |-> sub.dev,
              calls |-> Append(sub.calls, input_sync)]

\* veikk_raw_event with `&&` written for `||` in the check of the frame
veikk_raw_event_and(veikk_dev, f) ==
    IF f.id # VEIKK_REPORT_ID /\ f.size # SIZEOF_VEIKK_REPORT
    THEN [ret |-> -EINVAL, dev |-> veikk_dev, calls |-> << >>]
    ELSE raw_event_dispatch(veikk_dev, f)

veikk_raw_event(veikk_dev, f) ==
    IF f.id # VEIKK_REPORT_ID \/ f.size # SIZEOF_VEIKK_REPORT
    THEN [ret |-> -EINVAL, dev |-> veikk_dev, calls |-> << >>]
    ELSE raw_event_dispatch(veikk_dev, f)

(***************************************************************************)
(* veikk_is_proprietary: the report descriptor starts 0x06 0x0A 0xFF.      *)
(***************************************************************************)
veikk_is_proprietary(rdesc) ==
    Len(rdesc) >= 3 /\ rdesc[1] = 6 /\ rdesc[2] = 10 /\ rdesc[3] = 255

(***************************************************************************)
(* The activation commands and veikk_setup_feature.                        *)
(***************************************************************************)
pen_output_report == << 9, 1, 4, 0, 0, 0, 0, 0, 0 >>

buttons_output_report == << 9, 2, 2, 0, 0, 0, 0, 0, 0 >>

pad_output_report == << 9, 3, 2, 0, 0, 0, 0, 0, 0 >>

\* the delayed works of struct veikk_device and the device_type their
\* handlers (veikk_setup_pen, veikk_setup_buttons, veikk_setup_pad) pass
Works == {"setup_pen_work", "setup_buttons_work", "setup_pad_work"}

DeviceType(w) ==
    CASE w = "setup_pen_work" -> 0
      [] w = "setup_buttons_work" -> 1
      [] w = "setup_pad_work" -> 2

\* veikk_setup_feature sending the pen command whatever the device type
veikk_setup_feature_pen_only(device_type, alloc_ok) ==
    IF device_type \notin {0, 1, 2}
    THEN [ret |-> -EINVAL, buf |-> << >>]
    ELSE IF ~alloc_ok
    THEN [ret |-> -ENOMEM, buf |-> << >>]
    ELSE [ret |-> 0, buf |-> pen_output_report]

\* veikk_setup_feature on a live context: the return value and the buffer
\* handed to ll_driver->output_report (<< >> when nothing is written).
\* alloc_ok is the outcome of devm_kzalloc.
veikk_setup_feature(device_type, alloc_ok) ==
    IF device_type \notin {0, 1, 2}
    THEN [ret |-> -EINVAL, buf |-> << >>]
    ELSE IF ~alloc_ok
    THEN [ret |-> -ENOMEM, buf |-> << >>]
    ELSE [ret |-> 0,
          buf |-> CASE device_type = 0 -> pen_output_report
                    [] device_type = 1 -> buttons_output_report
                    [] device_type = 2 -> pad_output_report]

\* a delayed work: "idle" (never initialised), "timer" (scheduled, delay
\* jiffies to go), "queued" (timer expired, on the system workqueue) or
\* "done" (handler has run)
IdleWork == [st |-> "idle", delay |-> 0]

\* ScheduledWorks without the test of model->has_buttons
ScheduledWorks_buttons(model) ==
    [w \in Works |->
       IF w = "setup_pen_work"
          THEN [st |-> "timer", delay |-> SETUP_PEN_DELAY]
       ELSE IF w = "setup_buttons_work"
          THEN [st |-> "timer", delay |-> SETUP_BUTTONS_DELAY]
       ELSE IF w = "setup_pad_work" /\ model.has_pad # 0
          THEN [st |-> "timer", delay |-> SETUP_PAD_DELAY]
       ELSE IdleWork]

\* the works veikk_allocate_setup_register_inputs schedules for a model,
\* with their delays
ScheduledWorks(model) ==
    [w \in Works |->
       IF w = "setup_pen_work"
          THEN [st |-> "timer", delay |-> SETUP_PEN_DELAY]
       ELSE IF w = "setup_buttons_work" /\ model.has_buttons # 0
          THEN [st |-> "timer", delay |-> SETUP_BUTTONS_DELAY]
       ELSE IF w = "setup_pad_work" /\ model.has_pad # 0
          THEN [st |-> "timer", delay |-> SETUP_PAD_DELAY]
       ELSE IdleWork]

(***************************************************************************)
(* Inputs.                                                                 *)
(***************************************************************************)
\* report descriptors of the interfaces handed to veikk_probe: the
\* proprietary one, a generic one, and one too short to carry the usage
RDescs == { << 6, 10, 255, 9, 1 >>, << 5, 1, 9, 2 >>, << 6, 10 >> }

\* id->driver_data values veikk_probe is called with: table entries
\* (S640, A30, VK1560) and a dynamically added id without driver data
ProbeIds == { NULL, 1, 2, 4097 }

\* the steps of veikk_probe that can fail
ProbeFailures ==
    { "none", "devm_kzalloc", "hid_parse", "devm_input_allocate_device",
      "veikk_setup_bundled_inputs", "veikk_register_input", "hid_hw_start" }

Frame(id, size, type, data) ==
    [id |-> id, size |-> size, type |-> type, data |-> data]

NoFrame == Frame(0, 0, 0, << >>)

\* payloads of buttons-class frames: sub-type 1 (buttons), 3 and 0 (wheel),
\* pressed flag 0, 1 and 2, masks 0x0001, 0x0006 and 0x1100; one carries
\* non-zero unused bytes
MaskBytes == { << 1, 0 >>, << 6, 0 >>, << 0, 17 >> }

ButtonsPayloads ==
    { << t, p, m[1], m[2], 0, 0, 0 >> :
        t \in {1, 3}, p \in {0, 1}, m \in MaskBytes }
    \cup { << 0, 2, 1, 0, 7, 7, 7 >>, << 1, 2, 6, 0, 0, 0, 0 >> }

\* payloads of pad frames: pressed flag 0 and 1 (and 255), masks 0x01,
\* 0x12 and 0xE0
PadPayloads ==
    { << p, b, 0, 0, 0, 0, 0 >> : p \in {0, 1}, b \in {1, 18} }
    \cup { << 255, 224, 1, 2, 3, 4, 5 >> }

\* the pad payloads among the frames of the decoder specification
DecodePadPayloads ==
    { << 1, 1, 0, 0, 0, 0, 0 >>, << 0, 1, 0, 0, 0, 0, 0 >>,
      << 255, 224, 1, 2, 3, 4, 5 >> }

\* payloads of pen frames
PenPayloads ==
    { << 5, 52, 18, 255, 255, 0, 32 >>, << 2, 0, 128, 16, 79, 1, 0 >>,
      << 248, 0, 0, 0, 0, 255, 255 >> }

WellFormedFrames ==
    { Frame(VEIKK_REPORT_ID, SIZEOF_VEIKK_REPORT, VEIKK_PEN_REPORT, p) :
        p \in PenPayloads }
    \cup { Frame(VEIKK_REPORT_ID, SIZEOF_VEIKK_REPORT, VEIKK_BUTTON_REPORT, p) :
        p \in ButtonsPayloads }
    \cup { Frame(VEIKK_REPORT_ID, SIZEOF_VEIKK_REPORT, VEIKK_PAD_REPORT, p) :
        p \in DecodePadPayloads }

\* frames with a type byte outside the three known ones, around payloads
\* that would press or release button 0 if they were decoded as buttons
UnknownTypeFrames ==
    { Frame(VEIKK_REPORT_ID, SIZEOF_VEIKK_REPORT, t,
            << 1, 1, 1, 0, 0, 0, 0 >>) : t \in {0, 68} }
    \cup { Frame(VEIKK_REPORT_ID, SIZEOF_VEIKK_REPORT, 68,
                 << 1, 0, 1, 0, 0, 0, 0 >>) }

\* the type and payload of the malformed frames: a press and a release of
\* button 0, and a press of pad bit 0
MalformedBodies ==
    { << VEIKK_BUTTON_REPORT, << 1, 1, 1, 0, 0, 0, 0 >> >>,
      << VEIKK_BUTTON_REPORT, << 1, 0, 1, 0, 0, 0, 0 >> >>,
      << VEIKK_PAD_REPORT, << 1, 1, 0, 0, 0, 0, 0 >> >> }

\* frames of a wrong size, a wrong report id or both
MalformedFrames ==
    { Frame(x[1], x[2], b[1], b[2]) :
        x \in ({VEIKK_REPORT_ID, 1}
               \X {SIZEOF_VEIKK_REPORT - 1, SIZEOF_VEIKK_REPORT,
                   SIZEOF_VEIKK_REPORT + 1})
              \ { << VEIKK_REPORT_ID, SIZEOF_VEIKK_REPORT >> },
        b \in MalformedBodies }

DecodeFrames == WellFormedFrames \cup UnknownTypeFrames \cup MalformedFrames

\* the frames of the lifecycle specification
LifeFrames ==
    { Frame(VEIKK_REPORT_ID, SIZEOF_VEIKK_REPORT, VEIKK_BUTTON_REPORT,
            << 1, 1, 1, 0, 0, 0, 0 >>),
      Frame(VEIKK_REPORT_ID, SIZEOF_VEIKK_REPORT, VEIKK_PAD_REPORT,
            << 1, 1, 0, 0, 0, 0, 0 >>),
      Frame(VEIKK_REPORT_ID, SIZEOF_VEIKK_REPORT + 1, VEIKK_PAD_REPORT,
            << 1, 1, 0, 0, 0, 0, 0 >>),
      Frame(VEIKK_REPORT_ID, SIZEOF_VEIKK_REPORT, 68,
            << 1, 1, 1, 0, 0, 0, 0 >>) }

\* the frames of the pad-merge specification
PadFrames ==
    { Frame(VEIKK_REPORT_ID, SIZEOF_VEIKK_REPORT, VEIKK_PAD_REPORT, p) :
        p \in PadPayloads }

\* the frames of the frame-sequence specification: presses and a release
\* of buttons, a wheel press, a pad press, a press under a wrong report
\* id and a release under an unknown type
SeqFrames ==
    { Frame(VEIKK_REPORT_ID, SIZEOF_VEIKK_REPORT, VEIKK_BUTTON_REPORT, p) :
        p \in { << 1, 1, 1, 0, 0, 0, 0 >>, << 1, 1, 0, 17, 0, 0, 0 >>,
                << 1, 0, 1, 0, 0, 0, 0 >>, << 3, 1, 6, 0, 0, 0, 0 >> } }
    \cup { Frame(VEIKK_REPORT_ID, SIZEOF_VEIKK_REPORT, VEIKK_PAD_REPORT,
                 << 1, 18, 0, 0, 0, 0, 0 >>),
           Frame(1, SIZEOF_VEIKK_REPORT, VEIKK_BUTTON_REPORT,
                 << 1, 1, 6, 0, 0, 0, 0 >>),
           Frame(VEIKK_REPORT_ID, SIZEOF_VEIKK_REPORT, 68,
                 << 1, 0, 1, 0, 0, 0, 0 >>) }

\* the frames of the two-device specification: one pen frame, a press of
\* button 0, a wheel press, a press of pad bit 0
PairFrames ==
    { Frame(VEIKK_REPORT_ID, SIZEOF_VEIKK_REPORT, VEIKK_PEN_REPORT,
            << 1, 52, 18, 120, 86, 0, 1 >>),
      Frame(VEIKK_REPORT_ID, SIZEOF_VEIKK_REPORT, VEIKK_BUTTON_REPORT,
            << 1, 1, 1, 0, 0, 0, 0 >>),
      Frame(VEIKK_REPORT_ID, SIZEOF_VEIKK_REPORT, VEIKK_BUTTON_REPORT,
            << 3, 1, 2, 0, 0, 0, 0 >>),
      Frame(VEIKK_REPORT_ID, SIZEOF_VEIKK_REPORT, VEIKK_PAD_REPORT,
            << 1, 1, 0, 0, 0, 0, 0 >>) }

\* the frames of the bit-width specification: presses and releases of
\* the button group (type byte 1) and of the wheel group (type byte 3)
\* with the masks 0xE001, 0x1106 and 0xFFFC, which reach above bit 12 and
\* above bit 7, a pen frame and a press of pad bit 0
WidthMaskBytes == { << 1, 224 >>, << 6, 17 >>, << 252, 255 >> }

WidthFrames ==
    { Frame(VEIKK_REPORT_ID, SIZEOF_VEIKK_REPORT, VEIKK_BUTTON_REPORT,
            << t, p, m[1], m[2], 0, 0, 0 >>) :
        t \in {1, 3}, p \in {0, 1}, m \in WidthMaskBytes }
    \cup { Frame(VEIKK_REPORT_ID, SIZEOF_VEIKK_REPORT, VEIKK_PEN_REPORT,
                 << 1, 52, 18, 120, 86, 0, 1 >>),
           Frame(VEIKK_REPORT_ID, SIZEOF_VEIKK_REPORT, VEIKK_PAD_REPORT,
                 << 1, 1, 0, 0, 0, 0, 0 >>) }

(***************************************************************************)
(* veikk_allocate_setup_register_inputs on the context veikk_dev; fail     *)
(* names the step that fails, if any.  The result is the return value,     *)
(* the context and the delayed works afterwards.                           *)
(***************************************************************************)
NoWorks == [w \in Works |-> IdleWork]

veikk_allocate_setup_register_inputs(veikk_dev, fail) ==
    IF fail = "devm_input_allocate_device"
    THEN [ret |-> -ENOMEM, dev |-> veikk_dev, work |-> NoWorks]
    ELSE IF fail = "veikk_setup_bundled_inputs"
    THEN [ret |-> -ENOMEM,
          dev |-> [veikk_dev EXCEPT !.input_dev = "allocated"],
          work |-> NoWorks]
    ELSE IF fail = "veikk_register_input"
    THEN [ret |-> -EINVAL,
          dev |-> [veikk_dev EXCEPT !.input_dev = "allocated"],
          work |-> NoWorks]
    ELSE [ret |-> 0,
          dev |-> [veikk_dev EXCEPT !.input_dev = "registered"],
          work |-> ScheduledWorks(ModelOf(veikk_dev.model))]

\* veikk_probe looking at the driver data only after it has allocated the
\* context
veikk_probe_late_check(rd, driver_data, fail) ==
    IF ~veikk_is_proprietary(rd)
    THEN [ret |-> 0, dev |-> NoDevice, work |-> NoWorks, started |-> FALSE]
    ELSE IF fail = "devm_kzalloc"
    THEN [ret |-> -ENOMEM, dev |-> NoDevice, work |-> NoWorks,
          started |-> FALSE]
    ELSE IF driver_data = NULL
    THEN [ret |-> -EINVAL, dev |-> [NoDevice EXCEPT !.mem = "live"],
          work |-> NoWorks, started |-> FALSE]
    ELSE LET dev0 == [NoDevice EXCEPT !.mem = "live", !.model = driver_data]
             inputs == veikk_allocate_setup_register_inputs(dev0, fail)
         IN  IF fail = "hid_parse"
             THEN [ret |-> -EINVAL, dev |-> dev0, work |-> NoWorks,
                   started |-> FALSE]
             ELSE IF inputs.ret # 0
             THEN [ret |-> inputs.ret, dev |-> inputs.dev,
                   work |-> inputs.work, started |-> FALSE]
             ELSE IF fail = "hid_hw_start"
             THEN [ret |-> -EINVAL, dev |-> inputs.dev,
                   work |-> inputs.work, started |-> FALSE]
             ELSE [ret |-> 0, dev |-> inputs.dev, work |-> inputs.work,
                   started |-> TRUE]

\* veikk_probe going on to hid_hw_start whatever
\* veikk_allocate_setup_register_inputs returned
veikk_probe_unchecked_inputs(rd, driver_data, fail) ==
    IF ~veikk_is_proprietary(rd)
    THEN [ret |-> 0, dev |-> NoDevice, work |-> NoWorks, started |-> FALSE]
    ELSE IF driver_data = NULL
    THEN [ret |-> -EINVAL, dev |-> NoDevice, work |-> NoWorks,
          started |-> FALSE]
    ELSE IF fail = "devm_kzalloc"
    THEN [ret |-> -ENOMEM, dev |-> NoDevice, work |-> NoWorks,
          started |-> FALSE]
    ELSE LET dev0 == [NoDevice EXCEPT !.mem = "live", !.model = driver_data]
             inputs == veikk_allocate_setup_register_inputs(dev0, fail)
         IN  IF fail = "hid_parse"
             THEN [ret |-> -EINVAL, dev |-> dev0, work |-> NoWorks,
                   started |-> FALSE]
             ELSE IF fail = "hid_hw_start"
             THEN [ret |-> -EINVAL, dev |-> inputs.dev,
                   work |-> inputs.work, started |-> FALSE]
             ELSE [ret |-> 0, dev |-> inputs.dev, work |-> inputs.work,
                   started |-> TRUE]

(***************************************************************************)
(* veikk_probe for a hid_device with report descriptor rd, matched id with *)
(* driver data driver_data; fail names the step that fails, if any.  The   *)
(* result is the return value, the context (mem "none" when none was       *)
(* allocated), the delayed works, and whether the hardware was started.    *)
(***************************************************************************)
veikk_probe(rd, driver_data, fail) ==
    IF ~veikk_is_proprietary(rd)
    THEN [ret |-> 0, dev |-> NoDevice, work |-> NoWorks, started |-> FALSE]
    ELSE IF driver_data = NULL
    THEN [ret |-> -EINVAL, dev |-> NoDevice, work |-> NoWorks,
          started |-> FALSE]
    ELSE IF fail = "devm_kzalloc"
    THEN [ret |-> -ENOMEM, dev |-> NoDevice, work |-> NoWorks,
          started |-> FALSE]
    ELSE LET dev0 == [NoDevice EXCEPT !.mem = "live", !.model = driver_data]
             inputs == veikk_allocate_setup_register_inputs(dev0, fail)
         IN  IF fail = "hid_parse"
             THEN [ret |-> -EINVAL, dev |-> dev0, work |-> NoWorks,
                   started |-> FALSE]
             ELSE IF inputs.ret # 0
             THEN [ret |-> inputs.ret, dev |-> inputs.dev,
                   work |-> inputs.work, started |-> FALSE]
             ELSE IF fail = "hid_hw_start"
             THEN [ret |-> -EINVAL, dev |-> inputs.dev,
                   work |-> inputs.work, started |-> FALSE]
             ELSE [ret |-> 0, dev |-> inputs.dev, work |-> inputs.work,
                   started |-> TRUE]

(***************************************************************************)
(* State.                                                                  *)
(***************************************************************************)
VARIABLES
    rdesc,       \* rdesc[d]: the report descriptor of hid_device d, << >>
                 \*   until the device is enumerated and probed
    id_data,     \* id_data[d]: the driver_data of the hid_device_id that
                 \*   matched d at probe, NULL when it names no model
    st,          \* st[d]: the binding of d: "Uninitialized", "Active"
                 \*   (probed, hardware started), "Ignored" (probed as a
                 \*   generic interface), "Failed" (probe returned an
                 \*   error), "Detached" (removed)
    veikk_devs,  \* veikk_devs[d]: the struct veikk_device of d
    work,        \* work[d][w]: the delayed work w of d
    written,     \* written[d]: the buffers handed to output_report of d
    log,         \* log[d]: the frames delivered to d since attach, kept
                 \*   by the logging specifications only
    last         \* the last entry point that ran

vars == << rdesc, id_data, st, veikk_devs, work, written, log, last >>

\* the record of an entry point: op names it, dev its device, ret its
\* return value, frame and calls the frame of a raw event and the calls made
\* on the input device, w the delayed work that ran, uaf whether the
\* handler ran on a freed struct veikk_device
Last(op, d, ret, f, calls, w, uaf) ==
    [op |-> op, dev |-> d, ret |-> ret, frame |-> f, calls |-> calls,
     w |-> w, uaf |-> uaf]

Init ==
    /\ rdesc = [d \in Devs |-> << >>]
    /\ id_data = [d \in Devs |-> NULL]
    /\ st = [d \in Devs |-> "Uninitialized"]
    /\ veikk_devs = [d \in Devs |-> NoDevice]
    /\ work = [d \in Devs |-> NoWorks]
    /\ written = [d \in Devs |-> << >>]
    /\ log = [d \in Devs |-> << >>]
    /\ last = Last("init", 0, 0, NoFrame, << >>, "", FALSE)

\* devres releases the allocations of d: after a failed probe and after
\* remove
DevresRelease(veikk_dev) ==
    IF veikk_dev.mem = "live" THEN [veikk_dev EXCEPT !.mem = "freed"]
    ELSE veikk_dev

(***************************************************************************)
(* The HID core binds the driver to d: veikk_probe, then the release of    *)
(* the device's managed allocations when it returned an error.             *)
(***************************************************************************)
Probe(d) ==
    /\ st[d] = "Uninitialized"
    /\ \E rd \in RDescs, driver_data \in ProbeIds, fail \in ProbeFailures :
         LET r == veikk_probe(rd, driver_data, fail)
         IN  /\ rdesc' = [rdesc EXCEPT ![d] = rd]
             /\ id_data' = [id_data EXCEPT ![d] = driver_data]
             /\ st' = [st EXCEPT ![d] =
                        IF r.ret # 0 THEN "Failed"
                        ELSE IF r.started THEN "Active" ELSE "Ignored"]
             /\ veikk_devs' = [veikk_devs EXCEPT ![d] =
                        IF r.ret # 0 THEN DevresRelease(r.dev) ELSE r.dev]
             /\ work' = [work EXCEPT ![d] = r.work]
             /\ last' = Last("probe", d, r.ret, NoFrame, << >>, "", FALSE)
    /\ UNCHANGED << written, log >>

(***************************************************************************)
(* The HID core unbinds the driver from d: veikk_remove, then the release  *)
(* of the device's managed allocations.  veikk_remove stops the hardware   *)
(* and cancels no delayed work.                                            *)
(***************************************************************************)
veikk_remove(rd, veikk_dev, works) ==
    [stopped |-> veikk_is_proprietary(rd) /\ veikk_dev.mem # "none",
     work |-> works]

Remove(d) ==
    /\ st[d] \in {"Active", "Ignored"}
    /\ LET r == veikk_remove(rdesc[d], veikk_devs[d], work[d])
       IN  /\ st' = [st EXCEPT ![d] = "Detached"]
           /\ work' = [work EXCEPT ![d] = r.work]
           /\ veikk_devs' =
                [veikk_devs EXCEPT ![d] = DevresRelease(veikk_devs[d])]
    /\ last' = Last("remove", d, 0, NoFrame, << >>, "", FALSE)
    /\ UNCHANGED << rdesc, id_data, written, log >>

\* the delivery with the three bitmaps kept in one place for all the
\* devices (file-scope variables) instead of in each struct veikk_device
Deliver_shared(d, f) ==
    /\ st[d] = "Active"
    /\ LET r == veikk_raw_event(veikk_devs[d], f)
       IN  /\ veikk_devs' =
                [e \in Devs |->
                   IF veikk_devs[e].mem = "live"
                   THEN [veikk_devs[e] EXCEPT
                           !.buttons_state = r.dev.buttons_state,
                           !.wheel_state = r.dev.wheel_state,
                           !.pad_state = r.dev.pad_state]
                   ELSE veikk_devs[e]]
           /\ last' = Last("raw_event", d, r.ret, f, r.calls, "", FALSE)
    /\ UNCHANGED << rdesc, id_data, st, work, written >>

(***************************************************************************)
(* The HID core delivers frame f of the started device d to                *)
(* veikk_raw_event.                                                        *)
(***************************************************************************)
Deliver(d, f) ==
    /\ st[d] = "Active"
    /\ LET r == veikk_raw_event(veikk_devs[d], f)
       IN  /\ veikk_devs' = [veikk_devs EXCEPT ![d] = r.dev]
           /\ last' = Last("raw_event", d, r.ret, f, r.calls, "", FALSE)
    /\ UNCHANGED << rdesc, id_data, st, work, written >>

RawEvent(d, f) ==
    /\ Deliver(d, f)
    /\ UNCHANGED log

\* the same, with the frame appended to the log of d
RawEventLogged(d, f) ==
    /\ Len(log[d]) < MaxLog
    /\ Deliver(d, f)
    /\ log' = [log EXCEPT ![d] = Append(@, f)]

(***************************************************************************)
(* Time passes until the next timer of a delayed work expires; the expired *)
(* works are put on the system workqueue.                                  *)
(***************************************************************************)
Timers == { x \in Devs \X Works : work[x[1]][x[2]].st = "timer" }

Tick ==
    /\ Timers # {}
    /\ LET m == CHOOSE n \in { work[x[1]][x[2]].delay : x \in Timers } :
                  \A x \in Timers : n <= work[x[1]][x[2]].delay
       IN  work' = [d \in Devs |-> [w \in Works |->
                      IF work[d][w].st # "timer" THEN work[d][w]
                      ELSE IF work[d][w].delay - m <= 0
                      THEN [st |-> "queued", delay |-> 0]
                      ELSE [st |-> "timer", delay |-> work[d][w].delay - m]]]
    /\ last' = Last("timer", 0, 0, NoFrame, << >>, "", FALSE)
    /\ UNCHANGED << rdesc, id_data, st, veikk_devs, written, log >>

\* a worker whose handler is queued again when devm_kzalloc has failed
RunWork_retry(d, w) ==
    /\ work[d][w].st = "queued"
    /\ \/ /\ veikk_devs[d].mem = "live"
          /\ \E alloc_ok \in BOOLEAN :
               LET r == veikk_setup_feature(DeviceType(w), alloc_ok)
               IN  /\ written' = [written EXCEPT ![d] =
                         IF r.ret = 0 THEN Append(@, r.buf) ELSE @]
                   /\ work' = [work EXCEPT ![d][w] =
                         IF r.ret = 0 THEN [st |-> "done", delay |-> 0]
                         ELSE @]
                   /\ last' = Last("work", d, r.ret, NoFrame, << >>, w, FALSE)
       \/ /\ veikk_devs[d].mem = "freed"
          /\ work' = [work EXCEPT ![d][w] = [st |-> "done", delay |-> 0]]
          /\ \E outcome \in {"stale_write", "fault"} :
               LET r == veikk_setup_feature(DeviceType(w), TRUE)
               IN  /\ written' = [written EXCEPT ![d] =
                         IF outcome = "stale_write" THEN Append(@, r.buf)
                         ELSE @]
                   /\ last' = Last("work", d, r.ret, NoFrame, << >>, w, TRUE)
    /\ UNCHANGED << rdesc, id_data, st, veikk_devs, log >>

(***************************************************************************)
(* A worker runs the queued work w of d: veikk_setup_pen / _buttons /      *)
(* _pad, that is veikk_setup_feature.  The handler reaches the context     *)
(* through container_of and reads veikk_dev->hid_dev.  When the context    *)
(* has been freed this is a use after free: the stale pointer may still    *)
(* lead to the device, and the command is written to it, or the access     *)
(* faults and nothing is written.                                          *)
(***************************************************************************)
RunWork(d, w) ==
    /\ work[d][w].st = "queued"
    /\ work' = [work EXCEPT ![d][w] = [st |-> "done", delay |-> 0]]
    /\ \/ /\ veikk_devs[d].mem = "live"
          /\ \E alloc_ok \in BOOLEAN :
               LET r == veikk_setup_feature(DeviceType(w), alloc_ok)
               IN  /\ written' = [written EXCEPT ![d] =
                         IF r.ret = 0 THEN Append(@, r.buf) ELSE @]
                   /\ last' = Last("work", d, r.ret, NoFrame, << >>, w, FALSE)
       \/ /\ veikk_devs[d].mem = "freed"
          /\ \E outcome \in {"stale_write", "fault"} :
               LET r == veikk_setup_feature(DeviceType(w), TRUE)
               IN  /\ written' = [written EXCEPT ![d] =
                         IF outcome = "stale_write" THEN Append(@, r.buf)
                         ELSE @]
                   /\ last' = Last("work", d, r.ret, NoFrame, << >>, w, TRUE)
    /\ UNCHANGED << rdesc, id_data, st, veikk_devs, log >>

(***************************************************************************)
(* Specifications.                                                         *)
(***************************************************************************)
\* the whole driver: attach, detach, frames, the activation works
Next ==
    \/ Probe(FirstDev)
    \/ Remove(FirstDev)
    \/ \E f \in LifeFrames : RawEvent(FirstDev, f)
    \/ Tick
    \/ \E w \in Works : RunWork(FirstDev, w)

Spec == Init /\ [][Next]_vars

\* the frame decoder: one attached device and every frame of DecodeFrames
NextDecode ==
    \/ Probe(FirstDev)
    \/ \E f \in DecodeFrames : RawEvent(FirstDev, f)

SpecDecode == Init /\ [][NextDecode]_vars

\* the pad merger: one attached device, sequences of at most MaxLog
\* well-formed pad frames, each recorded in the log
NextPad ==
    \/ Probe(FirstDev)
    \/ \E f \in PadFrames : RawEventLogged(FirstDev, f)

SpecPad == Init /\ [][NextPad]_vars

\* frame sequences: one attached device, sequences of at most MaxLog
\* frames of SeqFrames, well-formed or not, each recorded in the log
NextSeq ==
    \/ Probe(FirstDev)
    \/ \E f \in SeqFrames : RawEventLogged(FirstDev, f)

SpecSeq == Init /\ [][NextSeq]_vars

\* two devices: each is attached on its own and receives frames of
\* PairFrames, in any interleaving with the other
NextPair ==
    \E d \in PairDevs :
      \/ Probe(d)
      \/ \E f \in PairFrames : RawEvent(d, f)

SpecPair == Init /\ [][NextPair]_vars

\* the bit widths of the bitmaps: one attached device and the frames of
\* WidthFrames
NextWidth ==
    \/ Probe(FirstDev)
    \/ \E f \in WidthFrames : RawEvent(FirstDev, f)

SpecWidth == Init /\ [][NextWidth]_vars

(***************************************************************************)
(* Properties.                                                             *)
(***************************************************************************)
\* a frame of the right size with the right report id
WellFormed(f) == f.id = 9 /\ f.size = 9

\* the 16-bit little-endian mask of a buttons payload
MaskOf(data) == data[3] + 256 * data[4]

\* bit i after merging mask m into S: set or cleared where m has the bit,
\* kept where it has not
Merged(S, m, pressed, i) ==
    IF Bit(m, i) = 1 THEN (IF pressed # 0 THEN 1 ELSE 0) ELSE Bit(S, i)

\* C1: a frame whose size is not 9 or whose report id is not 9 is rejected
\* with an error, changes no field of the device context (nor the works,
\* the binding, the output channel), and makes no call on the input device
\* (no event, no sync), whatever its type and payload.
C1_MalformedRejected ==
    [][ (last'.op = "raw_event" /\ ~WellFormed(last'.frame))
        => /\ last'.ret < 0
           /\ last'.calls = << >>
           /\ veikk_devs' = veikk_devs
           /\ UNCHANGED << st, work, written >> ]_vars

\* a frame with a wrong report id, the right size and a button press that
\* would set bit 0 arrived while bit 0 was clear and other bits set
C1_Witness ==
    /\ last.op = "raw_event"
    /\ last.frame.id # 9 /\ last.frame.size = 9
    /\ last.frame.type = 66
    /\ last.frame.data[1] = 1 /\ last.frame.data[2] = 1
    /\ MaskOf(last.frame.data) = 1
    /\ veikk_devs[last.dev].buttons_state = 6

\* C3: a well-formed buttons-class frame updates exactly one bitmap: with
\* sub-type 1 every bit of the 16-bit buttons_state that is in the mask is
\* set (pressed) or cleared (released) and every other bit keeps its value;
\* with any other sub-type the same holds of the bits of the 8-bit
\* wheel_state; the bitmap not selected and pad_state are unchanged.
C3_ButtonsMerge ==
    [][ (last'.op = "raw_event" /\ WellFormed(last'.frame)
         /\ last'.frame.type = 66)
        => LET d == last'.dev
               data == last'.frame.data
               m == MaskOf(data)
           IN  /\ veikk_devs'[d].pad_state = veikk_devs[d].pad_state
               /\ data[1] = 1 =>
                    /\ veikk_devs'[d].buttons_state \in 0..65535
                    /\ \A i \in 0..15 :
                         Bit(veikk_devs'[d].buttons_state, i)
                           = Merged(veikk_devs[d].buttons_state, m, data[2], i)
                    /\ veikk_devs'[d].wheel_state = veikk_devs[d].wheel_state
               /\ data[1] # 1 =>
                    /\ veikk_devs'[d].wheel_state \in 0..255
                    /\ \A i \in 0..7 :
                         Bit(veikk_devs'[d].wheel_state, i)
                           = Merged(veikk_devs[d].wheel_state, m, data[2], i)
                    /\ veikk_devs'[d].buttons_state
                         = veikk_devs[d].buttons_state ]_vars

\* a wheel-group press of mask 0x0006 has been merged into a wheel_state
\* that held bit 0, which it keeps
C3_Witness ==
    /\ last.op = "raw_event" /\ WellFormed(last.frame)
    /\ last.frame.type = 66
    /\ last.frame.data[1] = 3 /\ last.frame.data[2] = 1
    /\ MaskOf(last.frame.data) = 6
    /\ veikk_devs[last.dev].wheel_state = 7
    /\ veikk_devs[last.dev].buttons_state # 0

\* C5: a wheel-group frame (sub-type other than 1) leaves buttons_state
\* unchanged and a button-group frame (sub-type 1) leaves wheel_state
\* unchanged, for every pressed flag and mask.
C5_DomainIndependence ==
    [][ (last'.op = "raw_event" /\ WellFormed(last'.frame)
         /\ last'.frame.type = 66)
        => LET d == last'.dev
           IN  IF last'.frame.data[1] = 1
               THEN veikk_devs'[d].wheel_state = veikk_devs[d].wheel_state
               ELSE veikk_devs'[d].buttons_state
                      = veikk_devs[d].buttons_state ]_vars

\* a wheel-group press whose mask 0x1100 names bits 8 and 12 arrived while
\* buttons_state held bit 0 only
C5_Witness ==
    /\ last.op = "raw_event" /\ WellFormed(last.frame)
    /\ last.frame.type = 66
    /\ last.frame.data[1] = 3 /\ last.frame.data[2] = 1
    /\ MaskOf(last.frame.data) = 4352
    /\ veikk_devs[last.dev].buttons_state = 1

\* the step is the decoding of a button-group release frame naming bit A
ReleaseOf(d, A) ==
    /\ last'.op = "raw_event" /\ last'.dev = d
    /\ WellFormed(last'.frame)
    /\ last'.frame.type = 66
    /\ last'.frame.data[1] = 1 /\ last'.frame.data[2] = 0
    /\ Bit(MaskOf(last'.frame.data), A) = 1

\* C6: a bit set in buttons_state stays set over every step (pen, pad,
\* wheel-group, malformed and unknown frames, button-group presses, and
\* button-group releases of other bits) except the decoding of a
\* button-group release frame whose mask has that bit.
C6_ModifierHold ==
    [][ \A d \in Devs, A \in 0..15 :
          (Bit(veikk_devs[d].buttons_state, A) = 1 /\ ~ReleaseOf(d, A))
          => Bit(veikk_devs'[d].buttons_state, A) = 1 ]_vars

\* bits 1 and 2 have been released while bit 0 is held
C6_Witness ==
    /\ last.op = "raw_event" /\ WellFormed(last.frame)
    /\ last.frame.type = 66
    /\ last.frame.data[1] = 1 /\ last.frame.data[2] = 0
    /\ MaskOf(last.frame.data) = 6
    /\ Bit(veikk_devs[last.dev].buttons_state, 0) = 1
    /\ Bit(veikk_devs[last.dev].buttons_state, 12) = 1

\* the number of input_sync calls among calls
Syncs(calls) == Cardinality({ i \in 1..Len(calls) : calls[i].type = "EV_SYN" })

\* C8: a well-formed frame of type 0x41, 0x42 or 0x43 is followed by
\* exactly one input_sync, made after all the reports of the frame; a
\* malformed frame and a frame of an unknown type are followed by none.
C8_SyncOncePerAcceptedFrame ==
    last.op = "raw_event" =>
      IF WellFormed(last.frame) /\ last.frame.type \in {65, 66, 67}
      THEN /\ Syncs(last.calls) = 1
           /\ Len(last.calls) > 1
           /\ last.calls[Len(last.calls)].type = "EV_SYN"
           /\ last.ret = 1
      ELSE Syncs(last.calls) = 0

\* a pen frame has been decoded: six reports, then the sync
C8_Witness ==
    /\ last.op = "raw_event" /\ WellFormed(last.frame)
    /\ last.frame.type = 65
    /\ Len(last.calls) = 7
    /\ last.calls[7].type = "EV_SYN"

\* C9: a well-formed frame whose type is none of 0x41, 0x42, 0x43 returns
\* 0 (no error), makes no call on the input device and leaves the device
\* context unchanged.
C9_UnrecognizedIgnored ==
    [][ (last'.op = "raw_event" /\ WellFormed(last'.frame)
         /\ last'.frame.type \notin {65, 66, 67})
        => /\ last'.ret = 0
           /\ last'.calls = << >>
           /\ veikk_devs' = veikk_devs ]_vars

\* a frame of type 0x44 arrived at a context with buttons and pad bits set
C9_Witness ==
    /\ last.op = "raw_event" /\ WellFormed(last.frame)
    /\ last.frame.type = 68
    /\ last.ret = 0
    /\ veikk_devs[last.dev].buttons_state # 0
    /\ veikk_devs[last.dev].pad_state # 0

\* the codes reported from buttons_state, bit 0 first
ButtonCodes ==
    << "BTN_0", "BTN_1", "BTN_2", "BTN_3", "BTN_4", "BTN_5", "BTN_6", "BTN_7",
       "BTN_8", "BTN_9", "0x118", "0x119", "BTN_WHEEL" >>

\* the codes of the wheel: its center button and its two directions
WheelCodes == { "BTN_WHEEL", "BTN_GEAR_DOWN", "BTN_GEAR_UP" }

KeyEvent(code, value) == [type |-> "EV_KEY", code |-> code, value |-> value]

\* C4 (as amended): after every well-formed buttons-class frame, of either
\* sub-type, fifteen key events are reported and then synchronized: the
\* twelve numbered buttons and the wheel-center button with bits 0..12 of
\* the updated buttons_state, and the two wheel directions with bits 0 and 1
\* of the updated wheel_state; both bitmaps are reported in full.
C4_ButtonsReemitted ==
    (last.op = "raw_event" /\ WellFormed(last.frame) /\ last.frame.type = 66)
    => LET c == last.calls
           dev == veikk_devs[last.dev]
       IN  /\ Len(c) = 16
           /\ \A i \in 1..13 :
                c[i] = KeyEvent(ButtonCodes[i], Bit(dev.buttons_state, i - 1))
           /\ c[14] = KeyEvent("BTN_GEAR_DOWN", Bit(dev.wheel_state, 0))
           /\ c[15] = KeyEvent("BTN_GEAR_UP", Bit(dev.wheel_state, 1))
           /\ c[16].type = "EV_SYN"

\* a wheel-group press has been decoded while bit 12 of buttons_state was
\* set: the wheel-center button is reported pressed from buttons_state
C4_Witness ==
    /\ last.op = "raw_event" /\ WellFormed(last.frame)
    /\ last.frame.type = 66
    /\ last.frame.data[1] = 3 /\ last.frame.data[2] = 1
    /\ MaskOf(last.frame.data) = 1
    /\ veikk_devs[last.dev].buttons_state = 4352
    /\ veikk_devs[last.dev].wheel_state = 1
    /\ last.calls[13] = KeyEvent("BTN_WHEEL", 1)

\* C4 as stated: thirteen numbered button events from the button bitmap,
\* plus a wheel-center event and two wheel-direction events whose values
\* are bits of the wheel bitmap.
C4_Original ==
    (last.op = "raw_event" /\ WellFormed(last.frame) /\ last.frame.type = 66)
    => LET c == last.calls
           dev == veikk_devs[last.dev]
           keys == { i \in 1..Len(c) : c[i].type = "EV_KEY" }
       IN  /\ Cardinality({ i \in keys : c[i].code \notin WheelCodes }) = 13
           /\ Cardinality({ i \in keys : c[i].code \in WheelCodes }) = 3
           /\ \A i \in keys :
                c[i].code \in WheelCodes
                => \E b \in 0..7 : c[i].value = Bit(dev.wheel_state, b)

\* the bits set in the w-bit value x
BitsOf(x, w) == { i \in 0..(w - 1) : Bit(x, i) = 1 }

RECURSIVE PadFold(_)
\* the bits left by a sequence of pad frames applied in order to an empty
\* bitmap: a pressed frame adds the bits of its mask, a released frame
\* removes them
PadFold(frames) ==
    IF frames = << >> THEN {}
    ELSE LET f == frames[Len(frames)]
             prev == PadFold(SubSeq(frames, 1, Len(frames) - 1))
         IN  IF f.data[1] # 0 THEN prev \cup BitsOf(f.data[2], 8)
             ELSE prev \ BitsOf(f.data[2], 8)

\* C7: on a freshly attached context pad_state is 0, and after any
\* sequence of well-formed pad frames it is the left fold of S | m
\* (pressed) and S & ~m (released) over the sequence; after each pad frame
\* the four swipe events and the double-tap event are bits 0, 1, 2, 3 and
\* 4 of the updated pad_state.
C7_PadFold ==
    \A d \in Devs :
      veikk_devs[d].mem = "live"
      => /\ veikk_devs[d].pad_state \in 0..255
         /\ BitsOf(veikk_devs[d].pad_state, 8) = PadFold(log[d])
         /\ (last.op = "raw_event" /\ last.dev = d)
            => last.calls =
                 << KeyEvent("BTN_NORTH", Bit(veikk_devs[d].pad_state, 0)),
                    KeyEvent("BTN_SOUTH", Bit(veikk_devs[d].pad_state, 1)),
                    KeyEvent("BTN_WEST", Bit(veikk_devs[d].pad_state, 2)),
                    KeyEvent("BTN_EAST", Bit(veikk_devs[d].pad_state, 3)),
                    KeyEvent("BTN_TOOL_DOUBLETAP",
                             Bit(veikk_devs[d].pad_state, 4)),
                    input_sync >>

\* three pad frames, the last a release of bit 0, have left bits 1 and 4
C7_Witness ==
    /\ last.op = "raw_event"
    /\ Len(log[last.dev]) = 3
    /\ log[last.dev][1].data[1] # 0
    /\ log[last.dev][3].data[1] = 0 /\ log[last.dev][3].data[2] = 1
    /\ veikk_devs[last.dev].pad_state = 18
    /\ last.calls[5] = KeyEvent("BTN_TOOL_DOUBLETAP", 1)

\* the delayed works of d that have been scheduled
Scheduled(d) == { w \in Works : work[d][w].st # "idle" }

\* the works to schedule for capability flags hb and hp
ExpectedWorks(hb, hp) ==
    {"setup_pen_work"}
    \cup (IF hb # 0 THEN {"setup_buttons_work"} ELSE {})
    \cup (IF hp # 0 THEN {"setup_pad_work"} ELSE {})

\* C10: an attached device has the pen work scheduled, the buttons work iff
\* its model has buttons, the pad work iff its model has a pad, and no
\* other: 1 + has_buttons + has_pad works.  The same holds of the works
\* chosen for every combination of the two flags, so that a model with a
\* pad and no buttons gets exactly the pen and the pad work.
C10_ScheduledWorks ==
    /\ \A d \in Devs :
         st[d] = "Active"
         => LET m == ModelOf(veikk_devs[d].model)
            IN  /\ Scheduled(d) = ExpectedWorks(m.has_buttons, m.has_pad)
                /\ Cardinality(Scheduled(d)) = 1 + m.has_buttons + m.has_pad
                /\ (last.op = "probe" /\ last.dev = d)
                   => \A w \in Scheduled(d) : work[d][w].st = "timer"
    /\ \A hb \in {0, 1}, hp \in {0, 1} :
         LET sw == ScheduledWorks([has_buttons |-> hb, has_pad |-> hp])
             on == { w \in Works : sw[w].st = "timer" }
         IN  /\ on = ExpectedWorks(hb, hp)
             /\ Cardinality(on) = 1 + hb + hp
             /\ \A w \in Works \ on : sw[w].st = "idle"

\* a VK1560 (buttons, no pad) has just been attached: two works
C10_Witness ==
    /\ last.op = "probe" /\ last.ret = 0
    /\ st[last.dev] = "Active"
    /\ veikk_devs[last.dev].model = 4097
    /\ Scheduled(last.dev) = {"setup_pen_work", "setup_buttons_work"}

\* C2: after the detach of a device no activation work of that device
\* runs: no handler reads the device context once veikk_remove has
\* returned.
C2_NoWorkAfterDetach ==
    ~ (last.op = "work" /\ st[last.dev] = "Detached")

\* C11: the activation commands of one device are written in the order
\* of their delays: the pen command before the buttons command, the
\* buttons command before the pad command.  written[d] lists the
\* commands in the order of the writes, and the second byte of a command
\* is 1 for the pen, 2 for the buttons, 3 for the pad.
C11_WritesOrdered ==
    \A d \in Devs :
      \A i \in 1..Len(written[d]), j \in 1..Len(written[d]) :
        i < j => written[d][i][2] < written[d][j][2]

\* the device d has been handed to veikk_probe
Probed(d) == st[d] # "Uninitialized"

\* C12: the attach of a device whose matched id carries no model
\* descriptor creates no device context, schedules no activation work,
\* registers no input device and writes no command.  On the proprietary
\* interface veikk_probe returns -EINVAL and the device is left unbound;
\* on a generic interface veikk_probe returns 0 before it looks at the
\* driver data.
C12_UnknownModel ==
    \A d \in Devs :
      (Probed(d) /\ id_data[d] = NULL)
      => /\ veikk_devs[d].mem = "none"
         /\ veikk_devs[d].input_dev = "NULL"
         /\ \A w \in Works : work[d][w].st = "idle"
         /\ written[d] = << >>
         /\ IF veikk_is_proprietary(rdesc[d])
            THEN /\ st[d] = "Failed"
                 /\ (last.op = "probe" /\ last.dev = d) => last.ret = -22
            ELSE /\ st[d] \in {"Ignored", "Detached"}
                 /\ (last.op = "probe" /\ last.dev = d) => last.ret = 0

\* the proprietary interface of a device without a model descriptor has
\* just been refused
C12_Witness ==
    /\ last.op = "probe" /\ last.ret = -22
    /\ id_data[last.dev] = NULL
    /\ veikk_is_proprietary(rdesc[last.dev])
    /\ st[last.dev] = "Failed"

\* C12 as stated: every attach of a device without a model descriptor
\* fails with the error, whatever the interface
C12_Original ==
    \A d \in Devs :
      (Probed(d) /\ id_data[d] = NULL)
      => /\ st[d] = "Failed"
         /\ (last.op = "probe" /\ last.dev = d) => last.ret = -22
         /\ veikk_devs[d].mem = "none"
         /\ veikk_devs[d].input_dev = "NULL"
         /\ \A w \in Works : work[d][w].st = "idle"

\* C13: a failure at any step of veikk_probe makes it return an error
\* without starting the hardware, and the device is never Active then: an
\* Active device has a live context of a model of the table with a
\* registered input device, a device whose probe failed has no live
\* context and its bitmaps were never written, and veikk_raw_event only
\* runs for an Active device, on that live context.
C13_LifecycleSafety ==
    /\ \A rd \in RDescs, driver_data \in ProbeIds \ {NULL},
          fail \in ProbeFailures \ {"none"} :
         veikk_is_proprietary(rd)
         => LET r == veikk_probe(rd, driver_data, fail)
            IN  r.ret < 0 /\ ~r.started
    /\ \A d \in Devs :
         /\ st[d] = "Active"
            => /\ veikk_devs[d].mem = "live"
               /\ veikk_devs[d].input_dev = "registered"
               /\ veikk_devs[d].model \in { m.prod_id : m \in veikk_models }
         /\ st[d] = "Failed"
            => /\ veikk_devs[d].mem # "live"
               /\ veikk_devs[d].buttons_state = 0
               /\ veikk_devs[d].wheel_state = 0
               /\ veikk_devs[d].pad_state = 0
    /\ (last.op = "probe" /\ last.ret # 0)
       => /\ last.ret < 0
          /\ st[last.dev] = "Failed"
    /\ last.op = "raw_event"
       => /\ st[last.dev] = "Active"
          /\ veikk_devs[last.dev].mem = "live"

\* the hardware start has failed after the input device was registered:
\* the device is not Active
C13_Witness ==
    /\ last.op = "probe" /\ last.ret < 0
    /\ veikk_devs[last.dev].input_dev = "registered"
    /\ st[last.dev] = "Failed"

\* C14: a well-formed pen frame reports X, Y and the pressure as
\* lo + 256 * hi of the payload bytes (1,2), (3,4) and (5,6), whatever the
\* maxima of the model, and BTN_TOUCH, BTN_STYLUS, BTN_STYLUS2 as the bits
\* 0, 1, 2 of payload byte 0; the events are a function of the frame
\* alone, in every state of the three bitmaps, which the frame leaves as
\* they are.
C14_PenDecode ==
    [][ (/\ last'.op = "raw_event"
         /\ WellFormed(last'.frame)
         /\ last'.frame.type = 65)
        => LET p == last'.frame.data
               c == last'.calls
           IN  /\ Len(c) = 7
               /\ c[1] = [type |-> "EV_ABS", code |-> "ABS_X",
                          value |-> p[2] + 256 * p[3]]
               /\ c[2] = [type |-> "EV_ABS", code |-> "ABS_Y",
                          value |-> p[4] + 256 * p[5]]
               /\ c[3] = [type |-> "EV_ABS", code |-> "ABS_PRESSURE",
                          value |-> p[6] + 256 * p[7]]
               /\ c[4] = KeyEvent("BTN_TOUCH", Bit(p[1], 0))
               /\ c[5] = KeyEvent("BTN_STYLUS", Bit(p[1], 1))
               /\ c[6] = KeyEvent("BTN_STYLUS2", Bit(p[1], 2))
               /\ veikk_devs' = veikk_devs ]_vars

\* a pen frame with Y = 65535, above the y_max of the model, has been
\* decoded while buttons and pad bits were held
C14_Witness ==
    /\ last.op = "raw_event" /\ last.ret = 1
    /\ last.frame.type = 65
    /\ last.frame.data[4] + 256 * last.frame.data[5] = 65535
    /\ ModelOf(veikk_devs[last.dev].model).y_max < 65535
    /\ last.calls[2].value = 65535
    /\ veikk_devs[last.dev].buttons_state # 0
    /\ veikk_devs[last.dev].pad_state # 0

\* the selector byte of the command of work w
SelectorOf(w) ==
    CASE w = "setup_pen_work" -> 1
      [] w = "setup_buttons_work" -> 2
      [] w = "setup_pad_work" -> 3

\* C15: every command written to a device is written by one of its
\* activation works and is the 9 bytes 0x09, the selector of that work
\* (1 pen, 2 buttons, 3 pad), the magic byte of that work (0x04 for the
\* pen, 0x02 for the buttons and for the pad), and six zero bytes; the
\* three commands are pairwise distinct.
C15_CommandBytes ==
    [][ /\ Cardinality({ pen_output_report, buttons_output_report,
                         pad_output_report }) = 3
        /\ \A d \in Devs :
             written'[d] # written[d]
             => /\ last'.op = "work" /\ last'.dev = d
                /\ LET sel == SelectorOf(last'.w)
                       magic == IF sel = 1 THEN 4 ELSE 2
                   IN  written'[d] =
                         Append(written[d],
                                << 9, sel, magic, 0, 0, 0, 0, 0, 0 >>) ]_vars

\* the three works of a device have written their commands
C15_Witness ==
    /\ last.op = "work" /\ last.ret = 0 /\ ~last.uaf
    /\ Len(written[last.dev]) = 3
    /\ \A w \in Works : work[last.dev][w].st = "done"

\* C15 as stated: byte 2 is one and the same constant in all the commands
C15_Original ==
    \A d \in Devs :
      \A i \in 1..Len(written[d]), j \in 1..Len(written[d]) :
        /\ Len(written[d][i]) = 9
        /\ written[d][i][1] = 9
        /\ written[d][i][2] \in {1, 2, 3}
        /\ written[d][i][3] = written[d][j][3]
        /\ \A k \in 4..9 : written[d][i][k] = 0

\* C16: an activation work runs at most once per attach.  The step that
\* runs it leaves it done whatever veikk_setup_feature returned, a work
\* that is done stays done (nothing schedules it again), so no command is
\* written twice to a device; and a queued work can always run, whatever
\* the works before it did.
C16_FireAndForget ==
    /\ [][ /\ last'.op = "work"
              => work'[last'.dev][last'.w].st = "done"
           /\ \A d \in Devs, w \in Works :
                /\ work[d][w].st = "done" => work'[d][w].st = "done"
                /\ (work[d][w].st = "queued" /\ work'[d][w].st # "queued")
                   => work'[d][w].st = "done"
           /\ \A d \in Devs :
                \A i \in 1..Len(written'[d]), j \in 1..Len(written'[d]) :
                  i # j => written'[d][i] # written'[d][j] ]_vars
    /\ [] (\A w \in Works :
             work[FirstDev][w].st = "queued" => ENABLED RunWork(FirstDev, w))

\* the buttons work has written its command after the pen work had run
\* and failed to allocate its buffer: the pen command was never written
C16_Witness ==
    /\ last.op = "work" /\ last.w = "setup_buttons_work" /\ last.ret = 0
    /\ ~last.uaf
    /\ work[last.dev]["setup_pen_work"].st = "done"
    /\ written[last.dev] = << buttons_output_report >>

\* a frame veikk_raw_event decodes: well-formed and of a known type
Recognized(f) == WellFormed(f) /\ f.type \in {65, 66, 67}

RECURSIVE Replay(_, _)
\* veikk_raw_event applied to the frames in order, starting from the
\* context veikk_dev: the result of the last call, on the context the
\* calls before it left
Replay(veikk_dev, frames) ==
    IF frames = << >>
    THEN [ret |-> 0, dev |-> veikk_dev, calls |-> << >>]
    ELSE veikk_raw_event(
           Replay(veikk_dev, SubSeq(frames, 1, Len(frames) - 1)).dev,
           frames[Len(frames)])

\* C17: malformed and unrecognized frames leave no trace.  An attached
\* device that has received any sequence of frames is Active and its
\* context, the three bitmaps included, is the one the decoded frames of
\* the sequence alone produce from the freshly attached context; a
\* decoded frame makes the calls it makes in that sequence without the
\* bad frames, and a bad frame makes no call.
C17_BadFramesIgnored ==
    \A d \in Devs :
      veikk_devs[d].mem = "live"
      => LET fresh == [veikk_devs[d] EXCEPT !.buttons_state = 0,
                          !.wheel_state = 0, !.pad_state = 0]
             r == Replay(fresh, SelectSeq(log[d], Recognized))
         IN  /\ st[d] = "Active"
             /\ veikk_devs[d] = r.dev
             /\ (last.op = "raw_event" /\ last.dev = d)
                => IF Recognized(last.frame)
                   THEN last.ret = 1 /\ last.calls = r.calls
                   ELSE last.ret <= 0 /\ last.calls = << >>

\* a press of button 0, then a release of button 0 under an unknown type,
\* then a press of buttons 8 and 12: button 0 is still held
C17_Witness ==
    /\ last.op = "raw_event"
    /\ Len(log[last.dev]) = 3
    /\ Recognized(log[last.dev][1])
    /\ ~Recognized(log[last.dev][2])
    /\ Recognized(log[last.dev][3])
    /\ veikk_devs[last.dev].buttons_state = 4353

\* a well-formed buttons frame of the button group (type byte 1) with the
\* pressed flag set
ButtonPress(f) ==
    /\ WellFormed(f)
    /\ f.type = 66
    /\ f.data[1] = 1
    /\ f.data[2] # 0

\* C18: a button-group press frame delivered a second time in a row
\* changes nothing: buttons_state and wheel_state (the whole context) are
\* what the first delivery left, and the calls on the input device are
\* the same, event for event.
C18_PressIdempotent ==
    [][ \A d \in Devs :
          (/\ log[d] # << >>
           /\ ButtonPress(log[d][Len(log[d])])
           /\ log'[d] = Append(log[d], log[d][Len(log[d])])
           /\ last.op = "raw_event" /\ last.dev = d)
          => /\ veikk_devs'[d] = veikk_devs[d]
             /\ last'.calls = last.calls
             /\ last'.ret = last.ret ]_vars

\* buttons 8 and 12 pressed twice in a row while button 0 was held
C18_Witness ==
    /\ last.op = "raw_event"
    /\ Len(log[last.dev]) = 3
    /\ ButtonPress(log[last.dev][3])
    /\ log[last.dev][2] = log[last.dev][3]
    /\ log[last.dev][3].data[4] = 17
    /\ veikk_devs[last.dev].buttons_state = 4353

\* C19: veikk_raw_event for device d writes nothing of any other device,
\* and on d a pen frame leaves the three bitmaps as they are, a pad frame
\* leaves buttons_state and wheel_state, a buttons frame leaves
\* pad_state, in every interleaving of the frames of the devices.
C19_BitmapOwnership ==
    [][ last'.op = "raw_event"
        => LET d == last'.dev
               f == last'.frame
               old == veikk_devs[d]
               new == veikk_devs'[d]
           IN  /\ \A e \in Devs \ {d} :
                    /\ veikk_devs'[e] = veikk_devs[e]
                    /\ st'[e] = st[e]
                    /\ work'[e] = work[e]
                    /\ written'[e] = written[e]
               /\ (Recognized(f) /\ f.type = 65)
                  => /\ new.buttons_state = old.buttons_state
                     /\ new.wheel_state = old.wheel_state
                     /\ new.pad_state = old.pad_state
               /\ (Recognized(f) /\ f.type = 67)
                  => /\ new.buttons_state = old.buttons_state
                     /\ new.wheel_state = old.wheel_state
               /\ (Recognized(f) /\ f.type = 66)
                  => new.pad_state = old.pad_state ]_vars

\* two attached devices: the first holds button 0 and no pad bit, and a
\* pad frame has just set pad bit 0 of the second, which holds no button
C19_Witness ==
    /\ last.op = "raw_event" /\ last.dev = SecondDev
    /\ last.frame.type = 67
    /\ st[FirstDev] = "Active" /\ st[SecondDev] = "Active"
    /\ veikk_devs[FirstDev].buttons_state = 1
    /\ veikk_devs[FirstDev].pad_state = 0
    /\ veikk_devs[SecondDev].buttons_state = 0
    /\ veikk_devs[SecondDev].pad_state = 1

\* C20: when veikk_probe has returned an error, no activation work of
\* that device is pending (on its timer or queued) and none runs
\* afterwards: no work handler reads the context of the aborted attach
\* and no command is written for it.
C20_NoWorkAfterFailedProbe ==
    /\ \A d \in Devs :
         st[d] = "Failed"
         => /\ \A w \in Works : work[d][w].st \notin {"timer", "queued"}
            /\ written[d] = << >>
    /\ ~ (last.op = "work" /\ st[last.dev] = "Failed")

\* contexts that differ from veikk_dev at most in bits 13..15 of
\* buttons_state and in bits 2..7 of wheel_state: those bits all clear,
\* mixed, and all set
HighBitTwins(veikk_dev) ==
    { [veikk_dev EXCEPT
         !.buttons_state = (veikk_dev.buttons_state % 8192) + 8192 * h,
         !.wheel_state = (veikk_dev.wheel_state % 4) + 4 * g] :
        << h, g >> \in { << 0, 0 >>, << 5, 42 >>, << 7, 63 >> } }

\* C21: a wheel-group frame merges the low 8 bits of its 16-bit mask into
\* the 8-bit wheel_state, bit for bit, drops the mask bits 8..15 and
\* leaves buttons_state as it is; a button-group frame merges all 16 bits
\* of the mask into buttons_state and leaves wheel_state as it is; and
\* the events of any decoded frame are the same on every context that
\* differs only above bit 12 of buttons_state and above bit 1 of
\* wheel_state.
C21_BitWidths ==
    [][ (last'.op = "raw_event" /\ Recognized(last'.frame))
        => LET d == last'.dev
               f == last'.frame
               old == veikk_devs[d]
               new == veikk_devs'[d]
               m == MaskOf(f.data)
           IN  /\ (f.type = 66 /\ f.data[1] # 1)
                  => /\ new.wheel_state \in 0..255
                     /\ \A i \in 0..7 :
                          Bit(new.wheel_state, i)
                            = Merged(old.wheel_state, m % 256, f.data[2], i)
                     /\ new.buttons_state = old.buttons_state
               /\ (f.type = 66 /\ f.data[1] = 1)
                  => /\ new.buttons_state \in 0..65535
                     /\ \A i \in 0..15 :
                          Bit(new.buttons_state, i)
                            = Merged(old.buttons_state, m, f.data[2], i)
                     /\ new.wheel_state = old.wheel_state
               /\ \A twin \in HighBitTwins(old) :
                    veikk_raw_event(twin, f).calls = last'.calls ]_vars

\* a wheel-group press of mask 0x1106 has set bits 1 and 2 of wheel_state
\* and nothing else, on a context whose buttons_state holds 0xE001
C21_Witness ==
    /\ last.op = "raw_event" /\ last.ret = 1
    /\ last.frame.type = 66
    /\ last.frame.data = << 3, 1, 6, 17, 0, 0, 0 >>
    /\ veikk_devs[last.dev].wheel_state = 6
    /\ veikk_devs[last.dev].buttons_state = 57345

=============================================================================
